---- MODULE Spec2Model ----
(***************************************************************************)
(* Model of the value parsers of markdown.rs:                              *)
(*   - OrderedListType::from_str / to_str        (src/parser/mod.rs)       *)
(*   - ObjectSize::from_text / as_text / as_html (src/parser/mod.rs)       *)
(*   - parse_image and its IMAGE regex           (src/parser/span/image.rs)*)
(*                                                                         *)
(* A string is a sequence of one-character strings; a byte offset of the   *)
(* source is an index into that sequence (all characters used are ASCII).  *)
(* Option<T> is a sequence of length at most one: None is <<>>, Some(v) is *)
(* <<v>>.                                                                  *)
(***************************************************************************)
EXTENDS Integers, Sequences, FiniteSets, TLC

VARIABLES
    pc,         \* position of the run: which function is applied next / was applied
    type_str,   \* argument of OrderedListType::from_str
    list_type,  \* an OrderedListType value
    type_out,   \* result of OrderedListType::to_str
    list_type2, \* OrderedListType::from_str(type_out)
    text,       \* argument of ObjectSize::from_text / parse_image
    parts,      \* how the argument of parse_image was put together
    size,       \* an Option<ObjectSize>
    from_code,  \* TRUE when size was returned by from_text, FALSE for a struct literal
    out_text,   \* result of ObjectSize::as_text
    out_html,   \* result of ObjectSize::as_html
    size2,      \* ObjectSize::from_text(out_text)
    image       \* result of parse_image: Option<(Image(text, url, title, size), len)>

vars == <<pc, type_str, list_type, type_out, list_type2, text, parts, size,
          from_code, out_text, out_html, size2, image>>

-----------------------------------------------------------------------------
(* Bounds of the model *)

MaxTypeLen == 2     \* longest list marker string
MaxSizeLen == 4     \* longest argument of from_text
MaxFieldLen == 1    \* longest width / height of an ObjectSize struct literal
MaxRawLen == 5      \* longest unstructured argument of parse_image
MaxAltLen == 1      \* longest alt text of a composed image
MaxUrlLen == 1      \* longest url of a composed image
MaxTitleLen == 1    \* longest title of a composed image
MaxImgSizeLen == 2  \* longest size annotation of a composed image
MaxRestLen == 1     \* longest text after the closing parenthesis of a composed image
MaxPreLen == 1      \* longest text before a composed image

-----------------------------------------------------------------------------
(* Strings and options *)

None == <<>>
Some(v) == <<v>>

Strings(A, n) == UNION {[1..k -> A] : k \in 0..n}

Min(S) == CHOOSE m \in S : \A k \in S : m <= k
Max(S) == CHOOSE m \in S : \A k \in S : m >= k

\* char::is_whitespace, the class trim() strips and the regex class \s
IsWhitespace(c) == c \in {" ", "\n"}

\* str::trim
trim(s) ==
    LET keep == {k \in 1..Len(s) : ~IsWhitespace(s[k])}
    IN  IF keep = {} THEN <<>> ELSE SubSeq(s, Min(keep), Max(keep))

\* &s[a..b] with 0-based byte offsets: defined when a <= b <= len
SliceInRange(s, a, b) == 0 <= a /\ a <= b /\ b <= Len(s)
Slice(s, a, b) == SubSeq(s, a + 1, b)

-----------------------------------------------------------------------------
(* OrderedListType *)

OrderedListType ==
    {"Numeric", "Lowercase", "Uppercase", "LowercaseRoman", "UppercaseRoman"}

from_str_no_upper(s) ==
    CASE s = <<"a">> -> "Lowercase"
      [] s = <<"A">> -> "Lowercase"
      [] s = <<"i">> -> "LowercaseRoman"
      [] s = <<"I">> -> "LowercaseRoman"
      [] OTHER -> "Numeric"

from_str(s) ==
    CASE s = <<"a">> -> "Lowercase"
      [] s = <<"A">> -> "Uppercase"
      [] s = <<"i">> -> "LowercaseRoman"
      [] s = <<"I">> -> "UppercaseRoman"
      [] OTHER -> "Numeric"

to_str(t) ==
    CASE t = "Lowercase" -> <<"a">>
      [] t = "Uppercase" -> <<"A">>
      [] t = "LowercaseRoman" -> <<"i">>
      [] t = "UppercaseRoman" -> <<"I">>
      [] t = "Numeric" -> <<"1">>

-----------------------------------------------------------------------------
(* ObjectSize *)

ObjectSize(w, h) == [width |-> w, height |-> h]

\* format!("{}x{}", w, h) and its three shorter forms
as_text_no_leading_x(s) ==
    CASE s.width # None /\ s.height # None -> s.width[1] \o <<"x">> \o s.height[1]
      [] s.width # None /\ s.height = None -> s.width[1] \o <<"x">>
      [] s.width = None /\ s.height # None -> s.height[1]
      [] s.width = None /\ s.height = None -> <<>>

as_text(s) ==
    CASE s.width # None /\ s.height # None -> s.width[1] \o <<"x">> \o s.height[1]
      [] s.width # None /\ s.height = None -> s.width[1] \o <<"x">>
      [] s.width = None /\ s.height # None -> <<"x">> \o s.height[1]
      [] s.width = None /\ s.height = None -> <<>>

WidthAttr(w) == <<"w", "i", "d", "t", "h", "=", "\"">> \o w \o <<"\"">>
HeightAttr(h) == <<"h", "e", "i", "g", "h", "t", "=", "\"">> \o h \o <<"\"">>

as_html(s) ==
    CASE s.width # None /\ s.height # None ->
            WidthAttr(s.width[1]) \o <<" ">> \o HeightAttr(s.height[1])
      [] s.width # None /\ s.height = None -> WidthAttr(s.width[1])
      [] s.width = None /\ s.height # None -> HeightAttr(s.height[1])
      [] s.width = None /\ s.height = None -> <<>>

\* text.find(|c| c == 'x' || c == 'X'): 0-based offset of the first separator
find_separator(t) ==
    LET at == {k \in 1..Len(t) : t[k] \in {"x", "X"}}
    IN  IF at = {} THEN None ELSE Some(Min(at) - 1)

\* the offset i+1 at which the height slice text[i+1..] starts
HeightStart_skip_two(i) == i + 2

HeightStart(i) == i + 1

\* whether every slice from_text takes of t is in range (an out-of-range slice panics)
from_text_in_range(t) ==
    LET f == find_separator(t)
    IN  f # None =>
            /\ SliceInRange(t, 0, f[1])
            /\ SliceInRange(t, HeightStart(f[1]), Len(t))

\* the `if !w.is_empty() || !h.is_empty()` test of the separator branch
SidesNonEmpty_always(w, h) == TRUE

SidesNonEmpty(w, h) == w # <<>> \/ h # <<>>

\* the width the branch without separator stores: text.to_string()
BareWidth(t) == t

from_text(t) ==
    LET f == find_separator(t)
    IN  IF f # None
        THEN LET i == f[1]
                 w == trim(Slice(t, 0, i))
                 h == trim(Slice(t, HeightStart(i), Len(t)))
             IN  IF SidesNonEmpty(w, h)
                 THEN Some(ObjectSize(IF w = <<>> THEN None ELSE Some(w),
                                      IF h = <<>> THEN None ELSE Some(h)))
                 ELSE None
        ELSE IF t # <<>>
             THEN Some(ObjectSize(Some(BareWidth(t)), None))
             ELSE None

-----------------------------------------------------------------------------
\* parse_image: the IMAGE regex
\*   ^!\[(?P<text>.*?)\]\((?P<url>.*?)(?:\s"(?P<title>.*?)")?(?:\s=(?P<size>[0-9xX%]*))?\)
\* matched with the regex crate's leftmost-first rule: the match is the one a
\* backtracking matcher finds first, a lazy .*? trying the shortest run first,
\* a greedy * the longest, an optional group its presence first.
\* Positions p, q are 1-based indices into the text.

\* `.` matches any character except line feed
IsDot(c) == c # "\n"

\* the class [0-9xX%]
IsSizeChar(c) ==
    c \in {"0", "1", "2", "3", "4", "5", "6", "7", "8", "9", "x", "X", "%"}

At(t, p, c) == 1 <= p /\ p <= Len(t) /\ t[p] = c

NoMatch == [ok |-> FALSE, title |-> None, size |-> None, end |-> 0]

\* (?:\s=(?P<size>[0-9xX%]*))? then \) at p: positions where the parenthesis
\* can close after a size group starting at p
SizeCloses(t, p) ==
    {q \in (p + 2)..Len(t) :
        /\ IsWhitespace(t[p])
        /\ t[p + 1] = "="
        /\ \A r \in (p + 2)..(q - 1) : IsSizeChar(t[r])
        /\ t[q] = ")"}

MatchSizeClose(t, p) ==
    IF SizeCloses(t, p) # {}
    THEN LET q == Max(SizeCloses(t, p))     \* greedy star
         IN  [ok |-> TRUE, title |-> None,
              size |-> Some(SubSeq(t, p + 2, q - 1)), end |-> q]
    ELSE IF At(t, p, ")")
         THEN [ok |-> TRUE, title |-> None, size |-> None, end |-> p]
         ELSE NoMatch

\* (?:\s"(?P<title>.*?)")? at p: positions of a closing quote after which the
\* rest of the pattern matches
TitleCloses(t, p) ==
    {q \in (p + 2)..Len(t) :
        /\ IsWhitespace(t[p])
        /\ t[p + 1] = "\""
        /\ t[q] = "\""
        /\ \A r \in (p + 2)..(q - 1) : IsDot(t[r])
        /\ MatchSizeClose(t, q + 1).ok}

\* everything after the url: optional title, optional size, `)`
MatchTail_no_title(t, p) == MatchSizeClose(t, p)

MatchTail(t, p) ==
    IF TitleCloses(t, p) # {}
    THEN LET q == Min(TitleCloses(t, p))    \* lazy .*?
             m == MatchSizeClose(t, q + 1)
         IN  [ok |-> TRUE, title |-> Some(SubSeq(t, p + 2, q - 1)),
              size |-> m.size, end |-> m.end]
    ELSE MatchSizeClose(t, p)

\* (?P<url>.*?) from p: positions right after a url for which the rest matches
UrlEnds(t, p) ==
    {q \in p..(Len(t) + 1) :
        /\ \A r \in p..(q - 1) : IsDot(t[r])
        /\ MatchTail(t, q).ok}

\* the url end the lazy .*? settles on
UrlEnd_greedy(t, p) == Max(UrlEnds(t, p))

UrlEnd(t, p) == Min(UrlEnds(t, p))

\* !\[(?P<text>.*?)\]\( from offset s: positions of the `]` closing the alt
\* text for which the rest matches
AltEnds(t, s) ==
    {q \in (s + 3)..(Len(t) - 1) :
        /\ At(t, s + 1, "!")
        /\ At(t, s + 2, "[")
        /\ \A r \in (s + 3)..(q - 1) : IsDot(t[r])
        /\ t[q] = "]"
        /\ t[q + 1] = "("
        /\ UrlEnds(t, q + 2) # {}}

\* offsets at which a match may start: `^` allows offset 0 only
MatchStarts_unanchored(t) == 0..Len(t)

MatchStarts(t) == {0}

\* IMAGE.captures(text): None, or the capture groups and the end of group 0
IMAGE_captures(t) ==
    LET starts == {s \in MatchStarts(t) : AltEnds(t, s) # {}}
    IN  IF starts = {}
        THEN None
        ELSE LET s == Min(starts)               \* leftmost
                 a == Min(AltEnds(t, s))        \* lazy .*?
                 u == UrlEnd(t, a + 2)
                 m == MatchTail(t, u)
             IN  Some([text |-> SubSeq(t, s + 3, a - 1),
                       url |-> SubSeq(t, a + 2, u - 1),
                       title |-> m.title,
                       size |-> m.size,
                       start |-> s,
                       end |-> m.end])

\* the size field of the Image: from_text of the size capture, if it took part
ImageSize_raw_width(cap) ==
    IF cap # None /\ cap[1] # <<>> THEN Some(ObjectSize(cap, None)) ELSE None

ImageSize(cap) == IF cap # None THEN from_text(cap[1]) ELSE None

Image(alt, url, title, sz) == [alt |-> alt, url |-> url, title |-> title, size |-> sz]

parse_image(t) ==
    LET caps == IMAGE_captures(t)
    IN  IF caps # None
        THEN Some([image |-> Image(caps[1].text, caps[1].url, caps[1].title,
                                   ImageSize(caps[1].size)),
                   len |-> caps[1].end])
        ELSE None

-----------------------------------------------------------------------------
(* The arguments the functions are applied to *)

TypeChars == {"a", "A", "i", "I", "1", "2"}
SizeTextChars == {"x", "X", " ", "1", "%", "a"}
FieldChars == {"1", "x", " "}
RawChars == {"!", "[", "]", "(", ")"}
AltChars == {"a", "]", "\n"}
UrlChars == {"u", "=", " "}
TitleChars == {"t", "\"", "\n", ")"}
ImgSizeChars == {"1", "x", "a"}
RestChars == {" ", ")", "1"}
PreChars == {"w", "!"}

Options(S) == {None} \cup {Some(v) : v \in S}

\* an argument of parse_image: text around the construct ![alt](url ...)
\*   plain       pre ![alt](url) rest
\*   size        pre ![alt](url =size) rest
\*   title_size  pre ![alt](url "title" =size) rest
\*   size_title  pre ![alt](url =size "title") rest
\*   raw         rest
NoParts ==
    [form |-> "raw", pre |-> <<>>, alt |-> <<>>, url |-> <<>>, title |-> <<>>,
     size |-> <<>>, rest |-> <<>>]

ImageParts ==
    [form : {"raw"}, pre : {<<>>}, alt : {<<>>}, url : {<<>>}, title : {<<>>},
     size : {<<>>}, rest : Strings(RawChars, MaxRawLen)]
    \cup
    [form : {"plain"}, pre : Strings(PreChars, MaxPreLen),
     alt : Strings(AltChars, MaxAltLen), url : Strings(UrlChars, MaxUrlLen),
     title : {<<>>}, size : {<<>>}, rest : Strings(RestChars, MaxRestLen)]
    \cup
    [form : {"size"}, pre : {<<>>},
     alt : Strings(AltChars, MaxAltLen), url : Strings(UrlChars, MaxUrlLen),
     title : {<<>>}, size : Strings(ImgSizeChars, MaxImgSizeLen),
     rest : Strings(RestChars, MaxRestLen)]
    \cup
    [form : {"title_size", "size_title"}, pre : {<<>>},
     alt : Strings(AltChars, MaxAltLen), url : Strings(UrlChars, MaxUrlLen),
     title : Strings(TitleChars, MaxTitleLen),
     size : Strings(ImgSizeChars, MaxImgSizeLen), rest : {<<>>}]

SizeAnnotation(s) == <<" ", "=">> \o s
TitleAnnotation(s) == <<" ", "\"">> \o s \o <<"\"">>

Inner(p) ==
    CASE p.form = "plain" -> p.url
      [] p.form = "size" -> p.url \o SizeAnnotation(p.size)
      [] p.form = "title_size" ->
            p.url \o TitleAnnotation(p.title) \o SizeAnnotation(p.size)
      [] p.form = "size_title" ->
            p.url \o SizeAnnotation(p.size) \o TitleAnnotation(p.title)

\* the construct alone, from ![ to the closing parenthesis
Construct(p) == <<"!", "[">> \o p.alt \o <<"]", "(">> \o Inner(p) \o <<")">>

Compose(p) ==
    IF p.form = "raw" THEN p.rest ELSE p.pre \o Construct(p) \o p.rest

-----------------------------------------------------------------------------
(* The state machine: each run applies the functions of one type to one    *)
(* argument.                                                               *)

Init ==
    \/ /\ pc = "from_str"
       /\ type_str \in Strings(TypeChars, MaxTypeLen)
       /\ list_type = "Numeric" /\ type_out = <<>> /\ list_type2 = "Numeric"
       /\ text = <<>> /\ parts = NoParts /\ size = None /\ from_code = FALSE
       /\ out_text = <<>> /\ out_html = <<>> /\ size2 = None /\ image = None
    \/ /\ pc = "from_text"
       /\ text \in Strings(SizeTextChars, MaxSizeLen)
       /\ type_str = <<>> /\ list_type = "Numeric"
       /\ type_out = <<>> /\ list_type2 = "Numeric"
       /\ parts = NoParts /\ size = None /\ from_code = FALSE
       /\ out_text = <<>> /\ out_html = <<>> /\ size2 = None /\ image = None
    \/ /\ pc = "as_text"        \* an ObjectSize written as a struct literal
       /\ \E w, h \in Options(Strings(FieldChars, MaxFieldLen)) :
            size = Some(ObjectSize(w, h))
       /\ from_code = FALSE
       /\ type_str = <<>> /\ list_type = "Numeric"
       /\ type_out = <<>> /\ list_type2 = "Numeric"
       /\ text = <<>> /\ parts = NoParts
       /\ out_text = <<>> /\ out_html = <<>> /\ size2 = None /\ image = None
    \/ /\ pc = "parse_image"
       /\ parts \in ImageParts
       /\ text = Compose(parts)
       /\ type_str = <<>> /\ list_type = "Numeric"
       /\ type_out = <<>> /\ list_type2 = "Numeric"
       /\ size = None /\ from_code = FALSE
       /\ out_text = <<>> /\ out_html = <<>> /\ size2 = None /\ image = None

FromStr ==
    /\ pc = "from_str"
    /\ list_type' = from_str(type_str)
    /\ pc' = "to_str"
    /\ UNCHANGED <<type_str, type_out, list_type2, text, parts, size, from_code,
                   out_text, out_html, size2, image>>

ToStr ==
    /\ pc = "to_str"
    /\ type_out' = to_str(list_type)
    /\ pc' = "from_str_again"
    /\ UNCHANGED <<type_str, list_type, list_type2, text, parts, size, from_code,
                   out_text, out_html, size2, image>>

FromStrAgain ==
    /\ pc = "from_str_again"
    /\ list_type2' = from_str(type_out)
    /\ pc' = "list_done"
    /\ UNCHANGED <<type_str, list_type, type_out, text, parts, size, from_code,
                   out_text, out_html, size2, image>>

FromText ==
    /\ pc = "from_text"
    /\ IF from_text_in_range(text)
       THEN /\ size' = from_text(text)
            /\ from_code' = TRUE
            /\ pc' = IF from_text(text) = None THEN "size_none" ELSE "as_text"
       ELSE /\ pc' = "panic"
            /\ UNCHANGED <<size, from_code>>
    /\ UNCHANGED <<type_str, list_type, type_out, list_type2, text, parts,
                   out_text, out_html, size2, image>>

AsText ==
    /\ pc = "as_text"
    /\ out_text' = as_text(size[1])
    /\ pc' = "as_html"
    /\ UNCHANGED <<type_str, list_type, type_out, list_type2, text, parts, size,
                   from_code, out_html, size2, image>>

AsHtml ==
    /\ pc = "as_html"
    /\ out_html' = as_html(size[1])
    /\ pc' = "from_text_again"
    /\ UNCHANGED <<type_str, list_type, type_out, list_type2, text, parts, size,
                   from_code, out_text, size2, image>>

FromTextAgain ==
    /\ pc = "from_text_again"
    /\ IF from_text_in_range(out_text)
       THEN /\ size2' = from_text(out_text)
            /\ pc' = "size_done"
       ELSE /\ pc' = "panic"
            /\ UNCHANGED size2
    /\ UNCHANGED <<type_str, list_type, type_out, list_type2, text, parts, size,
                   from_code, out_text, out_html, image>>

ParseImage ==
    /\ pc = "parse_image"
    /\ image' = parse_image(text)
    /\ pc' = "image_done"
    /\ UNCHANGED <<type_str, list_type, type_out, list_type2, text, parts, size,
                   from_code, out_text, out_html, size2>>

Next ==
    \/ FromStr
    \/ ToStr
    \/ FromStrAgain
    \/ FromText
    \/ AsText
    \/ AsHtml
    \/ FromTextAgain
    \/ ParseImage

Spec == Init /\ [][Next]_vars

-----------------------------------------------------------------------------
(* Properties *)

Contains(s, c) == \E k \in 1..Len(s) : s[k] = c
StartsWith(s, prefix) ==
    Len(s) >= Len(prefix) /\ SubSeq(s, 1, Len(prefix)) = prefix
EndsWith(s, suffix) ==
    Len(s) >= Len(suffix) /\ SubSeq(s, Len(s) - Len(suffix) + 1, Len(s)) = suffix
HasInfix(s, infix) ==
    \E k \in 0..(Len(s) - Len(infix)) : SubSeq(s, k + 1, k + Len(infix)) = infix

ListParsed == pc \in {"to_str", "from_str_again", "list_done"}
ListPrinted == pc \in {"from_str_again", "list_done"}
SizePrinted == pc \in {"from_text_again", "size_done"}
ImageParsed == pc = "image_done"

\* the size parser as section 4.3 of the specification words it
ReferenceSize(t) ==
    LET at == {k \in 1..Len(t) : t[k] \in {"x", "X"}}
    IN  IF at # {}
        THEN LET w == trim(SubSeq(t, 1, Min(at) - 1))
                 h == trim(SubSeq(t, Min(at) + 1, Len(t)))
             IN  IF w = <<>> /\ h = <<>>
                 THEN None
                 ELSE Some(ObjectSize(IF w = <<>> THEN None ELSE Some(w),
                                      IF h = <<>> THEN None ELSE Some(h)))
        ELSE IF trim(t) # <<>>
             THEN Some(ObjectSize(Some(trim(t)), None))
             ELSE None

\* C1: from_text(t) equals the reference size parser for every t: split at the
\* first x or X, trimmed sides, None when both are empty; without separator the
\* whole trimmed text, if non-empty, is the width.
C1_FromTextIsReference == from_code => size = ReferenceSize(text)

\* C1 restricted to texts holding a separator, where the code does trim
C1_HoldsWithSeparator ==
    (from_code /\ find_separator(text) # None) => size = ReferenceSize(text)

\* C2: whenever from_text(t) returns a size v, from_text(v.as_text()) returns
\* the same v.
C2_RoundTrip == (pc = "size_done" /\ from_code) => size2 = size

\* an ObjectSize with a field present and no present field empty
WellFormedSize(s) ==
    /\ s.width # None \/ s.height # None
    /\ s.width # Some(<<>>)
    /\ s.height # Some(<<>>)

\* C3: every ObjectSize returned by from_text, and every size carried by an
\* Image returned by parse_image, has a field present and no present field
\* empty; from_text of the empty text and of "x" is None.
C3_SizeNeverEmpty ==
    /\ (from_code /\ size # None) => WellFormedSize(size[1])
    /\ (from_code /\ text \in {<<>>, <<"x">>}) => size = None
    /\ (pc = "size_done" /\ size2 # None) => WellFormedSize(size2[1])
    /\ (ImageParsed /\ image # None /\ image[1].image.size # None) =>
            WellFormedSize(image[1].image.size[1])

C3_Witness == from_code /\ text = <<"x">> /\ size = None

Quoted(s) == <<"\"">> \o s \o <<"\"">>

\* C4: as_text is "{w}x{h}", "{w}x", "x{h}" or "" and as_html is
\* width="W" height="H", width="W", height="H" or "" according to the fields
\* present; an absent field contributes nothing.
C4_Serializers ==
    SizePrinted =>
        LET w == size[1].width
            h == size[1].height
            wattr == IF w = None THEN <<>>
                     ELSE <<"w", "i", "d", "t", "h", "=">> \o Quoted(w[1])
            hattr == IF h = None THEN <<>>
                     ELSE <<"h", "e", "i", "g", "h", "t", "=">> \o Quoted(h[1])
            gap == IF w # None /\ h # None THEN <<" ">> ELSE <<>>
        IN  /\ out_text = IF w = None /\ h = None THEN <<>>
                          ELSE (IF w = None THEN <<>> ELSE w[1]) \o <<"x">>
                               \o (IF h = None THEN <<>> ELSE h[1])
            /\ out_html = wattr \o gap \o hattr

C4_Witness ==
    /\ SizePrinted
    /\ size[1].width = None
    /\ size[1].height = Some(<<"1">>)
    /\ out_text = <<"x", "1">>

\* C5: from_str maps "a", "A", "i", "I" to the four letter types and every
\* other string to Numeric; to_str is the inverse one-character mapping:
\* from_str(to_str(t)) = t, to_str(from_str(s)) = s for the four letters and
\* "1" for every other s.
C5_ListTypeMapping ==
    /\ ListParsed =>
        /\ list_type \in OrderedListType
        /\ list_type = "Lowercase" <=> type_str = <<"a">>
        /\ list_type = "Uppercase" <=> type_str = <<"A">>
        /\ list_type = "LowercaseRoman" <=> type_str = <<"i">>
        /\ list_type = "UppercaseRoman" <=> type_str = <<"I">>
    /\ ListPrinted =>
        /\ Len(type_out) = 1
        /\ type_out = IF type_str \in {<<"a">>, <<"A">>, <<"i">>, <<"I">>}
                      THEN type_str ELSE <<"1">>
    /\ pc = "list_done" => list_type2 = list_type

C5_Witness ==
    pc = "list_done" /\ type_str = <<"I">> /\ list_type2 = "UppercaseRoman"

ImageOpen == <<"!", "[">>

\* C6: parse_image returns None for every text that does not begin with "![",
\* also when a complete image construct occurs later in it.
C6_Anchored ==
    ImageParsed => (image # None => StartsWith(text, ImageOpen))

C6_Witness ==
    /\ ImageParsed
    /\ parts.form = "plain"
    /\ parts.pre = <<"w">>
    /\ parse_image(Construct(parts)) # None
    /\ image = None

\* alt and url as the claims C7, C8 and C9 restrict them
AltPlain(alt) == ~Contains(alt, "]")
UrlPlain(url) ==
    \A k \in 1..Len(url) : ~IsWhitespace(url[k]) /\ url[k] \notin {"\"", ")"}

PlainCase == ImageParsed /\ parts.form = "plain" /\ parts.pre = <<>>

PlainResult ==
    image = Some([image |-> Image(parts.alt, parts.url, None, None),
                  len |-> Len(Construct(parts))])

\* C7: for any alt without ']', any url without whitespace, '"' or ')' and any
\* trailing text, parse_image("![alt](url)" ++ trailing) is
\* Image(alt, url, None, None) with the length of "![alt](url)".
C7_Original ==
    (PlainCase /\ AltPlain(parts.alt) /\ UrlPlain(parts.url)) => PlainResult

\* C7 as amended: the same for any alt without ']' and without line feed.
C7_TrailingTextNotAbsorbed ==
    (PlainCase /\ AltPlain(parts.alt) /\ ~Contains(parts.alt, "\n")
        /\ UrlPlain(parts.url)) => PlainResult

C7_Witness ==
    /\ PlainCase
    /\ parts.alt = <<"a">> /\ parts.url = <<"u">> /\ parts.rest = <<")">>
    /\ PlainResult

SizeCase == ImageParsed /\ parts.form = "size" /\ parts.pre = <<>>

SizeResult ==
    /\ image # None
    /\ image[1].image = Image(parts.alt, parts.url, None, from_text(parts.size))

\* C8: for any alt without ']', any non-empty url without whitespace, '"' or
\* ')' and any size text S without whitespace or ')',
\* parse_image("![alt](url =S)" ++ rest) is Image(alt, url, None, from_text(S)).
C8_Original ==
    (SizeCase /\ AltPlain(parts.alt) /\ parts.url # <<>> /\ UrlPlain(parts.url)
        /\ \A k \in 1..Len(parts.size) :
                ~IsWhitespace(parts.size[k]) /\ parts.size[k] # ")")
    => SizeResult

\* C8 as amended: the same for any alt without ']' and without line feed and
\* any size text made of digits, 'x', 'X' and '%' only.
C8_SizeAnnotation ==
    (SizeCase /\ AltPlain(parts.alt) /\ ~Contains(parts.alt, "\n")
        /\ parts.url # <<>> /\ UrlPlain(parts.url)
        /\ \A k \in 1..Len(parts.size) : IsSizeChar(parts.size[k]))
    => SizeResult

C8_Witness ==
    /\ SizeCase
    /\ parts.alt = <<"a">> /\ parts.url = <<"u">> /\ parts.size = <<"1", "x">>
    /\ image # None
    /\ image[1].image.url = <<"u">>
    /\ image[1].image.size = Some(ObjectSize(Some(<<"1">>), None))

C8_WitnessEmptySize ==
    /\ SizeCase
    /\ parts.alt = <<"a">> /\ parts.url = <<"u">> /\ parts.size = <<>>
    /\ image # None
    /\ image[1].image.url = <<"u">>
    /\ image[1].image.size = None

OrderCase ==
    /\ ImageParsed
    /\ parts.form \in {"title_size", "size_title"}
    /\ AltPlain(parts.alt) /\ ~Contains(parts.alt, "\n")
    /\ UrlPlain(parts.url)
    /\ ~Contains(parts.title, "\"")
    /\ \A k \in 1..Len(parts.size) : IsSizeChar(parts.size[k])

OrderResult ==
    /\ image # None
    /\ image[1].len = Len(text)
    /\ parts.form = "title_size" =>
            image[1].image = Image(parts.alt, parts.url, Some(parts.title),
                                   from_text(parts.size))
    /\ parts.form = "size_title" =>
            image[1].image = Image(parts.alt,
                                   parts.url \o SizeAnnotation(parts.size),
                                   Some(parts.title), None)

\* C9: for simple alt and url, a title T without '"' and a size S made of
\* digits, 'x', 'X' and '%': "![alt](url "T" =S)" gives
\* Image(alt, url, Some(T), from_text(S)) and "![alt](url =S "T")" gives
\* Image(alt, url ++ " =S", Some(T), None), both consumed to the closing
\* parenthesis.
C9_Original == OrderCase => OrderResult

\* C9 as amended: the same for a title T without '"' and without line feed.
C9_TitleSizeOrder ==
    (OrderCase /\ ~Contains(parts.title, "\n")) => OrderResult

C9_Witness ==
    /\ OrderCase
    /\ parts.form = "size_title"
    /\ parts.url = <<"u">> /\ parts.size = <<"x", "1">> /\ parts.title = <<"t">>
    /\ image # None
    /\ image[1].image.url = <<"u", " ", "=", "x", "1">>
    /\ image[1].image.size = None

\* C10: from_text and parse_image never fail (no slice of from_text is out of
\* range, also with the separator first or last); a returned image has
\* 5 <= len <= length of the text, and the consumed prefix starts with "![",
\* contains "](" and ends with ")".
C10_TotalAndShaped ==
    /\ pc # "panic"
    /\ (ImageParsed /\ image # None) =>
        LET len == image[1].len
            consumed == SubSeq(text, 1, len)
        IN  /\ 5 <= len
            /\ len <= Len(text)
            /\ StartsWith(consumed, ImageOpen)
            /\ HasInfix(consumed, <<"]", "(">>)
            /\ EndsWith(consumed, <<")">>)
    /\ (ImageParsed /\ text \in {<<"!", "[", "(", ")", "]">>,
                                 <<"!", "(", ")", "[", "]">>}) => image = None

C10_Witness ==
    /\ from_code
    /\ Len(text) = 2
    /\ text[2] = "x"
    /\ find_separator(text) = Some(1)
    /\ size = Some(ObjectSize(Some(<<"1">>), None))

====
